---------------------------- MODULE Spec2Model ----------------------------
(***************************************************************************)
(* Real-estate dashboard: the App's cross-filter state machine and the     *)
(* aggregation code of its charts (donut, heatmap, bar, histogram,         *)
(* feature-premium calculator).                                            *)
(*                                                                         *)
(* JavaScript numbers are modelled as IEEE-754 binary64 values: a record   *)
(* [kind, sign, sig, exp] standing for sign * sig * 2^exp, where sig is a  *)
(* significand of at most 53 bits held as digits base 2^15, or one of the  *)
(* non-finite values NaN, Infinity, -Infinity.  Every arithmetic result is *)
(* rounded to nearest, ties to even.  The sign of zero and the exponent    *)
(* range are not modelled: no quantity of the dashboard reaches them.      *)
(*                                                                         *)
(* The variable document holds what the effect of the FeaturePremiumChart  *)
(* has drawn.  SpecDocument follows it, with the effect as a callback that *)
(* React runs after a render; the other specifications keep it Untracked.  *)
(***************************************************************************)
EXTENDS Integers, Sequences, FiniteSets, TLC

VARIABLES realEstateData,   \* the imported dataset (App.js:3)
          selectedChart,    \* App state (App.js:11)
          filteredData,     \* App state (App.js:12)
          bedroomFilter,    \* App state (App.js:13)
          priceFilter,      \* App state (App.js:14)
          amenityFilter,    \* App state (App.js:15)
          selectedFeature,  \* FeaturePremiumChart state (part_000:631)
          document,         \* what the FeaturePremiumChart effect has drawn
          lastOp            \* history: the handler that last set filteredData

vars == <<realEstateData, selectedChart, filteredData, bedroomFilter,
          priceFilter, amenityFilter, selectedFeature, document, lastOp>>

---------------------------------------------------------------------------
(* JavaScript number arithmetic: IEEE-754 binary64, round to nearest even *)

Abs(i) == IF i < 0 THEN -i ELSE i

Sign(i) == IF i > 0 THEN 1 ELSE IF i < 0 THEN -1 ELSE 0

Max2(a, b) == IF a > b THEN a ELSE b

\* Natural numbers of any size are sequences of digits to the base LimbBase,
\* the least significant first and the last one not 0; <<>> is 0.
LimbBase == 32768

LimbBits == 15

\* the number of bits a binary64 significand holds
SignificandBits == 53

RECURSIVE BFromInt(_)
BFromInt(n) == IF n = 0 THEN <<>> ELSE <<n % LimbBase>> \o BFromInt(n \div LimbBase)

\* the value of a digit sequence that fits TLC's integers
RECURSIVE BToInt(_)
BToInt(a) == IF a = <<>> THEN 0 ELSE a[1] + LimbBase * BToInt(Tail(a))

RECURSIVE BNorm(_)
BNorm(a) ==
  IF a = <<>> \/ a[Len(a)] # 0 THEN a ELSE BNorm(SubSeq(a, 1, Len(a) - 1))

BDigit(a, i) == IF i <= Len(a) THEN a[i] ELSE 0

RECURSIVE BAddFrom(_, _, _, _)
BAddFrom(a, b, i, carry) ==
  IF i > Len(a) /\ i > Len(b) THEN (IF carry = 0 THEN <<>> ELSE <<carry>>)
  ELSE LET t == BDigit(a, i) + BDigit(b, i) + carry
       IN  <<t % LimbBase>> \o BAddFrom(a, b, i + 1, t \div LimbBase)

BAdd(a, b) == BAddFrom(a, b, 1, 0)

RECURSIVE BSubFrom(_, _, _, _)
BSubFrom(a, b, i, borrow) ==
  IF i > Len(a) THEN <<>>
  ELSE LET t == a[i] - BDigit(b, i) - borrow
       IN  IF t < 0 THEN <<t + LimbBase>> \o BSubFrom(a, b, i + 1, 1)
                    ELSE <<t>> \o BSubFrom(a, b, i + 1, 0)

\* a - b for a >= b
BSub(a, b) == BNorm(BSubFrom(a, b, 1, 0))

RECURSIVE BCmpFrom(_, _, _)
BCmpFrom(a, b, i) ==
  IF i = 0 THEN 0
  ELSE IF a[i] > b[i] THEN 1
  ELSE IF a[i] < b[i] THEN -1
  ELSE BCmpFrom(a, b, i - 1)

\* -1, 0 or 1 as a < b, a = b or a > b
BCmp(a, b) ==
  IF Len(a) > Len(b) THEN 1
  ELSE IF Len(a) < Len(b) THEN -1
  ELSE BCmpFrom(a, b, Len(a))

RECURSIVE BMulSmallFrom(_, _, _, _)
BMulSmallFrom(a, k, i, carry) ==
  IF i > Len(a) THEN (IF carry = 0 THEN <<>> ELSE <<carry>>)
  ELSE LET t == a[i] * k + carry
       IN  <<t % LimbBase>> \o BMulSmallFrom(a, k, i + 1, t \div LimbBase)

\* a * k for a digit k
BMulSmall(a, k) == IF k = 0 THEN <<>> ELSE BMulSmallFrom(a, k, 1, 0)

\* a * LimbBase^n
BShiftLimbs(a, n) == IF a = <<>> THEN <<>> ELSE [i \in 1..n |-> 0] \o a

RECURSIVE BMul(_, _)
BMul(a, b) ==
  IF a = <<>> \/ b = <<>> THEN <<>>
  ELSE BAdd(BMulSmall(a, b[1]), BShiftLimbs(BMul(a, Tail(b)), 1))

\* a * 2^k
BShl(a, k) == BShiftLimbs(BMulSmall(a, 2 ^ (k % LimbBits)), k \div LimbBits)

\* a \div k and a % k for a digit k > 0, from the digit i downwards
RECURSIVE BDivSmallFrom(_, _, _, _)
BDivSmallFrom(a, k, i, rem) ==
  IF i = 0 THEN [q |-> <<>>, r |-> rem]
  ELSE LET t    == rem * LimbBase + a[i]
           rest == BDivSmallFrom(a, k, i - 1, t % k)
       IN  [q |-> rest.q \o <<t \div k>>, r |-> rest.r]

\* a \div 2^k
BShr(a, k) ==
  LET limbs == k \div LimbBits
      kept  == IF limbs >= Len(a) THEN <<>> ELSE SubSeq(a, limbs + 1, Len(a))
  IN  BNorm(BDivSmallFrom(kept, 2 ^ (k % LimbBits), Len(kept), 0).q)

RECURSIVE BitLenSmall(_)
BitLenSmall(n) == IF n = 0 THEN 0 ELSE 1 + BitLenSmall(n \div 2)

\* the number of bits of a
BBitLen(a) ==
  IF a = <<>> THEN 0 ELSE LimbBits * (Len(a) - 1) + BitLenSmall(a[Len(a)])

RECURSIVE TrailingZerosSmall(_)
TrailingZerosSmall(n) == IF n % 2 = 1 THEN 0 ELSE 1 + TrailingZerosSmall(n \div 2)

\* the number of low zero bits of a # 0
RECURSIVE BTrailingZeros(_)
BTrailingZeros(a) ==
  IF a[1] = 0 THEN LimbBits + BTrailingZeros(Tail(a)) ELSE TrailingZerosSmall(a[1])

\* the largest digit q with q * b <= r, counted down from the estimate qhat
RECURSIVE BQuotientDigit(_, _, _)
BQuotientDigit(r, b, qhat) ==
  IF BCmp(BMulSmall(b, qhat), r) > 0 THEN BQuotientDigit(r, b, qhat - 1) ELSE qhat

\* long division of a by b, whose last digit is at least LimbBase / 2, from
\* the digit i of a downwards with the remainder rem so far
RECURSIVE BLongDivFrom(_, _, _, _)
BLongDivFrom(a, b, i, rem) ==
  IF i = 0 THEN [q |-> <<>>, r |-> rem]
  ELSE LET r    == BNorm(<<a[i]>> \o rem)
           n    == Len(b)
           top  == BDigit(r, n + 1) * LimbBase + BDigit(r, n)
           est  == top \div b[n]
           qhat == IF est >= LimbBase THEN LimbBase - 1 ELSE est
           q    == BQuotientDigit(r, b, qhat)
           rest == BLongDivFrom(a, b, i - 1, BSub(r, BMulSmall(b, q)))
       IN  [q |-> rest.q \o <<q>>, r |-> rest.r]

\* a \div b, and whether a % b is not 0, for b # 0
BDivMod(a, b) ==
  LET shift == LimbBits - BitLenSmall(b[Len(b)])
      an    == BShl(a, shift)
      bn    == BShl(b, shift)
      res   == BLongDivFrom(an, bn, Len(an), <<>>)
  IN  [q |-> BNorm(res.q), inexact |-> res.r # <<>>]

\* A JavaScript number is NaN, an infinity or sign * sig * 2^exp, where sig
\* is a natural number of at most SignificandBits bits after its low zero
\* bits; exp is 0 for an integer and else sig is odd, so that equal numbers
\* are equal values. (-0 is not told from 0; the exponent range of binary64
\* is never left by the values computed here.)
NaN == [kind |-> "nan", sign |-> 0, sig |-> <<>>, exp |-> 0]

Infinity == [kind |-> "infinite", sign |-> 1, sig |-> <<>>, exp |-> 0]

NegInfinity == [kind |-> "infinite", sign |-> -1, sig |-> <<>>, exp |-> 0]

Zero == [kind |-> "finite", sign |-> 0, sig |-> <<>>, exp |-> 0]

\* the number of an integer (exact below 2^53)
Num(i) ==
  [kind |-> "finite", sign |-> Sign(i), sig |-> BFromInt(Abs(i)), exp |-> 0]

\* sign * m * 2^e in the form above, for m that needs no rounding
Canon(sign, m, e) ==
  IF m = <<>> \/ sign = 0 THEN Zero
  ELSE IF e >= 0
    THEN [kind |-> "finite", sign |-> sign, sig |-> BShl(m, e), exp |-> 0]
  ELSE LET zeros == BTrailingZeros(m)
           z     == IF zeros < -e THEN zeros ELSE -e
       IN  [kind |-> "finite", sign |-> sign, sig |-> BShr(m, z), exp |-> e + z]

\* the binary64 nearest to sign * m * 2^e, ties to the even significand
RoundToDouble(sign, m, e) ==
  LET n     == BBitLen(m)
      exact == n <= SignificandBits
      k     == n - SignificandBits
      q     == BShr(m, k)
      rem   == BSub(m, BShl(q, k))
      c     == BCmp(rem, BShl(<<1>>, k - 1))
      up    == c = 1 \/ (c = 0 /\ q[1] % 2 = 1)
  IN  Canon(sign,
            IF exact THEN m ELSE IF up THEN BAdd(q, <<1>>) ELSE q,
            IF exact THEN e ELSE e + k)

IsFinite(x) == x.kind = "finite"

IsNaN(x) == x.kind = "nan"

IsZero(x) == x.kind = "finite" /\ x.sign = 0

\* an integer below 2^30, whose arithmetic TLC's integers carry out exactly
IsSmallInt(x) == x.kind = "finite" /\ x.exp = 0 /\ Len(x.sig) <= 2

IntOf(x) == x.sign * BToInt(x.sig)

\* -x
Neg(x) == [x EXCEPT !.sign = -x.sign]

\* a / b
JsDiv(a, b) ==
  IF IsNaN(a) \/ IsNaN(b) THEN NaN
  ELSE IF ~IsFinite(a)
    THEN IF ~IsFinite(b) THEN NaN
         ELSE IF a.sign * (IF b.sign < 0 THEN -1 ELSE 1) > 0 THEN Infinity
         ELSE NegInfinity
  ELSE IF ~IsFinite(b) THEN Zero
  ELSE IF IsZero(b)
    THEN IF IsZero(a) THEN NaN ELSE IF a.sign > 0 THEN Infinity ELSE NegInfinity
  ELSE IF IsZero(a) THEN Zero
  ELSE IF IsSmallInt(a) /\ IsSmallInt(b) /\ BToInt(a.sig) % BToInt(b.sig) = 0
    THEN Num(a.sign * b.sign * (BToInt(a.sig) \div BToInt(b.sig)))
  ELSE LET k   == Max2(0, SignificandBits + 3 + BBitLen(b.sig) - BBitLen(a.sig))
           res == BDivMod(BShl(a.sig, k), b.sig)
           m   == BAdd(BMulSmall(res.q, 2), IF res.inexact THEN <<1>> ELSE <<>>)
       IN  RoundToDouble(a.sign * b.sign, m, a.exp - b.exp - k - 1)

\* a * b
JsMul(a, b) ==
  IF IsNaN(a) \/ IsNaN(b) THEN NaN
  ELSE IF ~IsFinite(a) \/ ~IsFinite(b)
    THEN IF a.sign * b.sign = 0 THEN NaN
         ELSE IF a.sign * b.sign > 0 THEN Infinity ELSE NegInfinity
  ELSE IF IsZero(a) \/ IsZero(b) THEN Zero
  ELSE IF IsSmallInt(a) /\ IsSmallInt(b) /\ Len(a.sig) + Len(b.sig) <= 2
    THEN Num(IntOf(a) * IntOf(b))
  ELSE RoundToDouble(a.sign * b.sign, BMul(a.sig, b.sig), a.exp + b.exp)

\* a + b
JsAdd(a, b) ==
  IF IsNaN(a) \/ IsNaN(b) THEN NaN
  ELSE IF ~IsFinite(a)
    THEN IF ~IsFinite(b) /\ a # b THEN NaN ELSE a
  ELSE IF ~IsFinite(b) THEN b
  ELSE IF IsZero(a) THEN b
  ELSE IF IsZero(b) THEN a
  ELSE IF IsSmallInt(a) /\ IsSmallInt(b) THEN Num(IntOf(a) + IntOf(b))
  ELSE LET e  == IF a.exp < b.exp THEN a.exp ELSE b.exp
           am == BShl(a.sig, a.exp - e)
           bm == BShl(b.sig, b.exp - e)
           c  == BCmp(am, bm)
       IN  IF a.sign # b.sign /\ c = 0 THEN Zero
           ELSE RoundToDouble(IF a.sign = b.sign \/ c > 0 THEN a.sign ELSE b.sign,
                              IF a.sign = b.sign THEN BAdd(am, bm)
                              ELSE IF c > 0 THEN BSub(am, bm)
                              ELSE BSub(bm, am),
                              e)

\* a - b
JsSub(a, b) == JsAdd(a, Neg(b))

\* -1, 0 or 1 as the magnitude of the finite a is below, at or above b's
CmpMagnitude(a, b) ==
  IF a.exp = b.exp THEN BCmp(a.sig, b.sig)
  ELSE LET e == IF a.exp < b.exp THEN a.exp ELSE b.exp
       IN  BCmp(BShl(a.sig, a.exp - e), BShl(b.sig, b.exp - e))

\* a < b (false when either is NaN)
JsLt(a, b) ==
  IF IsNaN(a) \/ IsNaN(b) THEN FALSE
  ELSE IF ~IsFinite(a) THEN a = NegInfinity /\ b # NegInfinity
  ELSE IF ~IsFinite(b) THEN b = Infinity
  ELSE IF a.sign # b.sign THEN a.sign < b.sign
  ELSE IF a.sign = 0 THEN FALSE
  ELSE IF IsSmallInt(a) /\ IsSmallInt(b) THEN IntOf(a) < IntOf(b)
  ELSE CmpMagnitude(a, b) * a.sign < 0

\* a <= b (false when either is NaN)
JsLeq(a, b) == ~IsNaN(a) /\ ~IsNaN(b) /\ (a = b \/ JsLt(a, b))

\* a > b
JsGt(a, b) == JsLt(b, a)

\* a >= b
JsGeq(a, b) == JsLeq(b, a)

---------------------------------------------------------------------------
(* Listings *)

\* one record of realEstateData; id is the object's identity (its position
\* in the dataset)
Listing(id, price, area, beds, baths, stories, parking, ac, basement, pref, furn) ==
  [id |-> id, price |-> price, area |-> area, bedrooms |-> beds,
   bathrooms |-> baths, stories |-> stories, parking |-> parking,
   airconditioning |-> ac, basement |-> basement, prefarea |-> pref,
   hotwaterheating |-> FALSE, guestroom |-> FALSE, mainroad |-> TRUE,
   furnishingstatus |-> furn]

\* the listing shapes the datasets of the App are drawn from
Template(id, t) ==
  CASE t = 1 -> Listing(id, 3000000, 3000, 2, 1, 1, 0, TRUE,  FALSE, FALSE, "furnished")
    [] t = 2 -> Listing(id, 4000000, 4000, 3, 2, 2, 2, FALSE, TRUE,  TRUE,  "semi-furnished")
    [] t = 3 -> Listing(id, 8000000, 4000, 4, 2, 3, 3, TRUE,  TRUE,  FALSE, "unfurnished")
    [] t = 4 -> Listing(id, 9000000, 6000, 3, 1, 3, 4, FALSE, FALSE, TRUE,  "furnished")
    [] t = 5 -> Listing(id, 5000000, 2000, 1, 1, 1, 1, FALSE, FALSE, FALSE, "unfurnished")

TemplateIds == 1..5

MaxListings == 2

\* the datasets: every sequence of 1..MaxListings listings over the templates
Datasets ==
  UNION { { [i \in 1..n |-> Template(i, ts[i])] : ts \in [1..n -> TemplateIds] }
          : n \in 1..MaxListings }

---------------------------------------------------------------------------
(* App.js *)

ChartKeys == {"all", "scatter", "histogram", "donut", "heatmap", "featurePremium"}

\* Array.prototype.filter is SelectSeq: the elements satisfying the test, in
\* order

\* a bedroom filter whose upper bound is exclusive
BedroomsSubsetExclusive(minBed, maxBed) ==
  SelectSeq(realEstateData, LAMBDA d : d.bedrooms >= minBed /\ d.bedrooms < maxBed)

\* the subset filterByBedrooms computes
BedroomsSubset(minBed, maxBed) ==
  SelectSeq(realEstateData, LAMBDA d : d.bedrooms >= minBed /\ d.bedrooms <= maxBed)

\* a price filter whose upper bound is exclusive
PriceSubsetExclusive(minPrice, maxPrice) ==
  SelectSeq(realEstateData,
            LAMBDA d : JsGeq(Num(d.price), minPrice) /\ JsLt(Num(d.price), maxPrice))

\* the subset filterByPrice computes; the bounds are JavaScript numbers
PriceSubset(minPrice, maxPrice) ==
  SelectSeq(realEstateData,
         LAMBDA d : JsGeq(Num(d.price), minPrice) /\ JsLeq(Num(d.price), maxPrice))

\* the data the bedroom-filter handler stores for a selected value
BedroomChoice(value) ==
  CASE value = "all"    -> realEstateData
    [] value = "small"  -> BedroomsSubset(1, 2)
    [] value = "medium" -> BedroomsSubset(3, 3)
    [] value = "large"  -> BedroomsSubset(4, 6)

\* the data the price-filter handler stores for a selected value
PriceChoice(value) ==
  CASE value = "all"        -> realEstateData
    [] value = "affordable" -> PriceSubset(Num(0), Num(4000000))
    [] value = "premium"    -> PriceSubset(Num(4000000), Num(8000000))
    [] value = "luxury"     -> PriceSubset(Num(8000000), Infinity)

\* the data the amenity-filter handler stores for a selected value
AmenityChoice(value) ==
  CASE value = "all"      -> realEstateData
    [] value = "ac"       -> SelectSeq(realEstateData, LAMBDA d : d.airconditioning = TRUE)
    [] value = "basement" -> SelectSeq(realEstateData, LAMBDA d : d.basement = TRUE)
    [] value = "parking"  -> SelectSeq(realEstateData, LAMBDA d : d.parking >= 2)

BedroomValues == {"all", "small", "medium", "large"}

PriceValues == {"all", "affordable", "premium", "luxury"}

AmenityValues == {"all", "ac", "basement", "parking"}

---------------------------------------------------------------------------
(* d3-array *)

RECURSIVE SumSeq(_)
SumSeq(s) == IF s = <<>> THEN 0 ELSE Head(s) + SumSeq(Tail(s))

\* a key map that merges only adjacent equal keys
RECURSIVE DistinctAdjacent(_)
DistinctAdjacent(s) ==
  IF Len(s) <= 1 THEN s
  ELSE IF s[1] = s[2] THEN DistinctAdjacent(Tail(s))
  ELSE <<s[1]>> \o DistinctAdjacent(Tail(s))

\* the distinct elements of s in the order of their first occurrence (the
\* key order of the InternMap d3.rollup fills)
RECURSIVE DistinctInOrder(_)
DistinctInOrder(s) ==
  IF s = <<>> THEN <<>>
  ELSE LET rest == DistinctInOrder(SelectSeq(Tail(s), LAMBDA k : k # Head(s)))
       IN  <<Head(s)>> \o rest

\* a rollup that drops the groups holding a single listing
RollupDroppingSingletons(data, keys) ==
  LET distinct == DistinctInOrder(keys)
      keyed    == [i \in DOMAIN data |-> <<keys[i], data[i]>>]
      Group(k) == LET sel == SelectSeq(keyed, LAMBDA p : p[1] = k)
                  IN  [i \in DOMAIN sel |-> sel[i][2]]
      all      == [j \in DOMAIN distinct |->
                     [key |-> distinct[j], values |-> Group(distinct[j])]]
  IN  SelectSeq(all, LAMBDA g : Len(g.values) >= 2)

\* d3.rollup on one key, keys[i] being the key of data[i]: the groups
\* <<[key, values]>> in insertion order
Rollup(data, keys) ==
  LET distinct == DistinctInOrder(keys)
      keyed    == [i \in DOMAIN data |-> <<keys[i], data[i]>>]
      Group(k) == LET sel == SelectSeq(keyed, LAMBDA p : p[1] = k)
                  IN  [i \in DOMAIN sel |-> sel[i][2]]
  IN  [j \in DOMAIN distinct |-> [key |-> distinct[j], values |-> Group(distinct[j])]]

\* JavaScript's undefined, which becomes NaN in arithmetic
Undefined == [kind |-> "undefined", sign |-> 0, sig |-> <<>>, exp |-> 0]

ToNumber(x) == IF x = Undefined THEN NaN ELSE x

\* a mean that drops the fraction of the quotient
MeanTruncated(nums) ==
  IF Len(nums) = 0 THEN Undefined ELSE Num(SumSeq(nums) \div Len(nums))

\* d3.mean of integers: undefined on an empty array
Mean(nums) ==
  IF Len(nums) = 0 THEN Undefined ELSE JsDiv(Num(SumSeq(nums)), Num(Len(nums)))

\* s with x inserted before the first element greater than x
RECURSIVE InsertAsc(_, _)
InsertAsc(s, x) ==
  IF s = <<>> THEN <<x>>
  ELSE IF JsLt(x, Head(s)) THEN <<x>> \o s
  ELSE <<Head(s)>> \o InsertAsc(Tail(s), x)

RECURSIVE SortAsc(_)
SortAsc(s) ==
  IF s = <<>> THEN <<>> ELSE InsertAsc(SortAsc(Tail(s)), Head(s))

\* the number 0.5
Half == [kind |-> "finite", sign |-> 1, sig |-> <<1>>, exp |-> -1]

\* a median that takes the lower middle value of an even-sized sample
MedianLower(nums) ==
  IF Len(nums) = 0 THEN Undefined ELSE SortAsc(nums)[((Len(nums) - 1) \div 2) + 1]

\* d3.median = d3.quantile(values, 0.5) of JavaScript numbers: undefined on
\* an empty array, else value0 + (value1 - value0) * (i - i0), i = (n-1)/2
Median(nums) ==
  IF Len(nums) = 0 THEN Undefined
  ELSE LET sorted == SortAsc(nums)
           n      == Len(nums)
           i0     == (n - 1) \div 2
           value0 == sorted[i0 + 1]
           value1 == sorted[IF i0 + 2 <= n THEN i0 + 2 ELSE n]
           frac   == JsSub(JsMul(Num(n - 1), Half), Num(i0))
       IN  JsAdd(value0, JsMul(JsSub(value1, value0), frac))

\* Math.min(...nums) of integers: Infinity without arguments
RECURSIVE MathMin(_)
MathMin(nums) ==
  IF nums = <<>> THEN Infinity
  ELSE LET m == MathMin(Tail(nums))
       IN  IF JsLt(Num(Head(nums)), m) THEN Num(Head(nums)) ELSE m

\* Math.max(...nums) of integers: -Infinity without arguments
RECURSIVE MathMax(_)
MathMax(nums) ==
  IF nums = <<>> THEN NegInfinity
  ELSE LET m == MathMax(Tail(nums))
       IN  IF JsGt(Num(Head(nums)), m) THEN Num(Head(nums)) ELSE m

\* d3.extent of JavaScript numbers: [undefined, undefined] on an empty array
Extent(nums) ==
  IF Len(nums) = 0 THEN <<Undefined, Undefined>>
  ELSE LET sorted == SortAsc(nums) IN <<sorted[1], sorted[Len(sorted)]>>

---------------------------------------------------------------------------
(* App.js: the stats panel *)

\* Math.round of a JavaScript number (halves go up)
MathRound(x) ==
  IF ~IsFinite(x) \/ x.exp = 0 THEN x
  ELSE LET twice == BAdd(BMulSmall(x.sig, 2), BShl(<<1>>, -x.exp))
           floor == BShr(twice, 1 - x.exp)
           ceil  == BShr(BSub(twice, <<1>>), 1 - x.exp)
       IN  Canon(x.sign, IF x.sign > 0 THEN floor ELSE ceil, 0)

Pad3(n) ==
  IF n < 10 THEN "00" \o ToString(n)
  ELSE IF n < 100 THEN "0" \o ToString(n) ELSE ToString(n)

\* the en-US digit grouping of a natural number
RECURSIVE GroupDigits(_)
GroupDigits(n) ==
  IF n < 1000 THEN ToString(n)
  ELSE GroupDigits(n \div 1000) \o "," \o Pad3(n % 1000)

\* Number.prototype.toLocaleString() of a non-negative number with no
\* fraction digits kept (the values formatted here are non-negative); the
\* infinity sign is written "Infinity"
FormatNumber(x) ==
  IF IsNaN(x) THEN "NaN"
  ELSE IF x = Infinity THEN "Infinity"
  ELSE IF x = NegInfinity THEN "-Infinity"
  ELSE GroupDigits(BToInt(MathRound(x).sig))

\* toLocaleString('en-US', {style: 'currency', currency: 'USD',
\* maximumFractionDigits: 0})
FormatCurrency(x) ==
  IF x = NegInfinity THEN "-$Infinity" ELSE "$" \o FormatNumber(x)

Prices(data) == [i \in DOMAIN data |-> data[i].price]

Areas(data) == [i \in DOMAIN data |-> data[i].area]

\* the numbers calculateStats formats
StatsValues(data) ==
  [totalHouses |-> Len(data),
   avgPrice    |-> JsDiv(Num(SumSeq(Prices(data))), Num(Len(Prices(data)))),
   avgArea     |-> MathRound(JsDiv(Num(SumSeq(Areas(data))), Num(Len(Areas(data))))),
   minPrice    |-> MathMin(Prices(data)),
   maxPrice    |-> MathMax(Prices(data))]

\* calculateStats on the current filteredData
calculateStats ==
  LET v == StatsValues(filteredData)
  IN  [totalHouses |-> v.totalHouses,
       avgPrice    |-> FormatCurrency(v.avgPrice),
       avgArea     |-> FormatNumber(v.avgArea),
       priceRange  |-> [min |-> FormatCurrency(v.minPrice),
                        max |-> FormatCurrency(v.maxPrice)]]

---------------------------------------------------------------------------
(* DonutChart.js *)

AnalysisTypes == {"furnishingstatus", "stories", "bedrooms", "location"}

\* the template literal `${n} ${n === 1 ? one : many}`
CountLabel(n, one, many) == ToString(n) \o " " \o (IF n = 1 THEN one ELSE many)

\* the grouping key processDataByType uses for a listing
DonutKey(type, d) ==
  CASE type = "furnishingstatus" -> d.furnishingstatus
    [] type = "stories"  -> CountLabel(d.stories, "Story", "Stories")
    [] type = "bedrooms" -> CountLabel(d.bedrooms, "Bedroom", "Bedrooms")
    [] type = "location" -> IF d.prefarea THEN "Preferred Area" ELSE "Standard Area"
    [] OTHER -> d.furnishingstatus

\* chartData before the bedroom reordering: Array.from(processDataByType(type))
processDataByType(type, data) ==
  LET groups == Rollup(data, [i \in DOMAIN data |-> DonutKey(type, data[i])])
  IN  [j \in DOMAIN groups |->
         [status |-> groups[j].key, count |-> Len(groups[j].values)]]

\* the fixed display order of the bedroom categories
bedroomOrder ==
  <<"2 Bedrooms", "1 Bedroom", "3 Bedrooms", "6 Bedrooms", "4 Bedrooms", "5 Bedrooms">>

\* bedroomOrder.indexOf(status), with 999 for a status that is not listed
OrderIndex(status) ==
  IF \E i \in DOMAIN bedroomOrder : bedroomOrder[i] = status
  THEN (CHOOSE i \in DOMAIN bedroomOrder : bedroomOrder[i] = status) - 1
  ELSE 999

\* s with the group e inserted after every group whose order index is not
\* greater (Array.prototype.sort is stable)
RECURSIVE InsertByOrder(_, _)
InsertByOrder(s, e) ==
  IF s = <<>> THEN <<e>>
  ELSE IF OrderIndex(Head(s).status) <= OrderIndex(e.status)
       THEN <<Head(s)>> \o InsertByOrder(Tail(s), e)
       ELSE <<e>> \o s

RECURSIVE SortByOrder(_)
SortByOrder(s) ==
  IF s = <<>> THEN <<>>
  ELSE InsertByOrder(SortByOrder(SubSeq(s, 1, Len(s) - 1)), s[Len(s)])

\* chartData left in the order of the grouping
chartDataUnsorted(type, data) == processDataByType(type, data)

\* chartData as the donut draws it: the bedroom categories reordered
chartData(type, data) ==
  IF type = "bedrooms" THEN SortByOrder(processDataByType(type, data))
  ELSE processDataByType(type, data)

---------------------------------------------------------------------------
(* HeatmapChart.js *)

ViewModes == {"bedrooms", "bathrooms", "stories"}

\* a minimum that returns its first argument
Min2First(a, b) == a

\* Math.min of two integers
Min2(a, b) == IF a < b THEN a ELSE b

\* the outer and the inner key of the rollup for a view mode
HeatmapX(viewMode, d) ==
  CASE viewMode = "bedrooms"  -> d.bedrooms
    [] viewMode = "bathrooms" -> d.bathrooms
    [] OTHER -> d.stories

HeatmapY(viewMode, d) ==
  CASE viewMode = "bedrooms"  -> d.bathrooms
    [] viewMode = "bathrooms" -> d.stories
    [] OTHER -> Min2(d.parking, 3)

RECURSIVE Flatten(_)
Flatten(ss) == IF ss = <<>> THEN <<>> ELSE Head(ss) \o Flatten(Tail(ss))

\* heatmapData: the nested rollup flattened, outer keys then inner keys in
\* insertion order
heatmapData(viewMode, data) ==
  LET outer == Rollup(data, [i \in DOMAIN data |-> HeatmapX(viewMode, data[i])])
      Cells(g) ==
        LET inner == Rollup(g.values, [i \in DOMAIN g.values |-> HeatmapY(viewMode, g.values[i])])
        IN  [k \in DOMAIN inner |->
               [x |-> g.key, y |-> inner[k].key,
                count |-> Len(inner[k].values),
                avgPrice |-> Mean(Prices(inner[k].values)),
                properties |-> inner[k].values]]
  IN  Flatten([j \in DOMAIN outer |-> Cells(outer[j])])

\* s with the integer x inserted before the first greater element
RECURSIVE InsertInt(_, _)
InsertInt(s, x) ==
  IF s = <<>> THEN <<x>>
  ELSE IF x < Head(s) THEN <<x>> \o s
  ELSE <<Head(s)>> \o InsertInt(Tail(s), x)

\* [...new Set(values)].sort((a, b) => a - b)
RECURSIVE SortInts(_)
SortInts(s) == IF s = <<>> THEN <<>> ELSE InsertInt(SortInts(Tail(s)), Head(s))

\* the domain of the x scale for a view mode
xDomain(viewMode, data) ==
  SortInts(DistinctInOrder([i \in DOMAIN data |-> HeatmapX(viewMode, data[i])]))

\* the domain of the y scale: the parking axis of the stories view is fixed
yDomain(viewMode, data) ==
  CASE viewMode = "bedrooms" ->
         SortInts(DistinctInOrder([i \in DOMAIN data |-> data[i].bathrooms]))
    [] viewMode = "bathrooms" ->
         SortInts(DistinctInOrder([i \in DOMAIN data |-> data[i].stories]))
    [] OTHER -> <<0, 1, 2, 3>>

---------------------------------------------------------------------------
(* BarChart (part_000) *)

\* s with the entry e inserted after every entry whose bedrooms are not
\* greater (Array.prototype.sort is stable)
RECURSIVE InsertByBedrooms(_, _)
InsertByBedrooms(s, e) ==
  IF s = <<>> THEN <<e>>
  ELSE IF e.bedrooms < Head(s).bedrooms THEN <<e>> \o s
  ELSE <<Head(s)>> \o InsertByBedrooms(Tail(s), e)

RECURSIVE SortByBedrooms(_)
SortByBedrooms(s) ==
  IF s = <<>> THEN <<>>
  ELSE InsertByBedrooms(SortByBedrooms(SubSeq(s, 1, Len(s) - 1)), s[Len(s)])

\* BarChart's chartData: the mean price of every bedroom count, ascending
BarChartData(data) ==
  LET aggregated == Rollup(data, [i \in DOMAIN data |-> data[i].bedrooms])
  IN  SortByBedrooms([j \in DOMAIN aggregated |->
        [bedrooms |-> aggregated[j].key,
         avgPrice |-> Mean(Prices(aggregated[j].values))]])

---------------------------------------------------------------------------
(* Histogram.js *)

\* the two pieces of state the component never changes
HistogramVariable == "price"

BinCount == 15

getVariableValue(d, variable) ==
  CASE variable = "price" -> Num(d.price)
    [] variable = "area"  -> Num(d.area)
    [] variable = "pricePerSqFt" -> JsDiv(Num(d.price), Num(d.area))
    [] variable = "bedrooms"  -> Num(d.bedrooms)
    [] variable = "bathrooms" -> Num(d.bathrooms)
    [] variable = "totalRooms" -> Num(d.bedrooms + d.bathrooms)
    [] OTHER -> Num(d.price)

\* uniformBins: binCount bins of equal width over the extent of the values
uniformBins(data, variable, binCount) ==
  LET variableData == [i \in DOMAIN data |-> getVariableValue(data[i], variable)]
      ext      == Extent(variableData)
      minVal   == ToNumber(ext[1])
      maxVal   == ToNumber(ext[2])
      binWidth == JsDiv(JsSub(maxVal, minVal), Num(binCount))
      Bin(i) ==
        LET binStart == JsAdd(minVal, JsMul(Num(i), binWidth))
            binEnd   == JsAdd(binStart, binWidth)
            binData  == SelectSeq(data, LAMBDA d :
                          LET value == getVariableValue(d, variable)
                          IN  /\ JsGeq(value, binStart)
                              /\ IF i = binCount - 1 THEN JsLeq(value, binEnd)
                                                     ELSE JsLt(value, binEnd))
        IN  [x0 |-> binStart, x1 |-> binEnd, length |-> Len(binData),
             data |-> binData]
  IN  [k \in 1..binCount |-> Bin(k - 1)]

---------------------------------------------------------------------------
(* FeaturePremiumChart (part_000:604-1002) *)

\* the keys of the features array, in its order
FeatureKeys ==
  <<"airconditioning", "parking", "prefarea", "hotwaterheating", "guestroom",
    "basement", "mainroad">>

\* d[key] === b: parking holds a number, which is never strictly equal to a
\* boolean
StrictEqBool(d, key, b) == IF key = "parking" THEN FALSE ELSE d[key] = b

\* a price per area that keeps the whole part of the quotient only
PricePerAreaTruncated(data) ==
  [i \in DOMAIN data |-> Num(data[i].price \div data[i].area)]

PricePerArea(data) ==
  [i \in DOMAIN data |-> JsDiv(Num(data[i].price), Num(data[i].area))]

\* the sample-size threshold of the ranked output
MinSampleSize == 5

\* the object calculateFeaturePremiums stores under a feature key, from the
\* premium per square foot, the two medians and the typical house size
PremiumRecord(key, premiumPerSqFt, pricePerSqFtWith, pricePerSqFtWithout, avgHouseSize, sampleSize) ==
  [key |-> key,
   premium |-> JsMul(premiumPerSqFt, avgHouseSize),
   premiumPercent |-> JsMul(JsDiv(premiumPerSqFt, pricePerSqFtWithout), Num(100)),
   basePrice |-> JsMul(pricePerSqFtWithout, avgHouseSize),
   withFeaturePrice |-> JsMul(pricePerSqFtWith, avgHouseSize),
   premiumPerSqFt |-> premiumPerSqFt,
   pricePerSqFtWith |-> pricePerSqFtWith,
   pricePerSqFtWithout |-> pricePerSqFtWithout,
   sampleSize |-> sampleSize,
   avgHouseSize |-> avgHouseSize]

\* the entry of a feature from its two medians of price per area
PremiumOfMedians(key, pricePerSqFtWith, pricePerSqFtWithout, avgHouseSize, sampleSize) ==
  PremiumRecord(key, JsSub(pricePerSqFtWith, pricePerSqFtWithout),
                pricePerSqFtWith, pricePerSqFtWithout, avgHouseSize, sampleSize)

\* the entry calculateFeaturePremiums stores for a feature whose two subsets
\* are non-empty
PremiumEntry(data, key) ==
  LET withFeature    == SelectSeq(data, LAMBDA d : StrictEqBool(d, key, TRUE))
      withoutFeature == SelectSeq(data, LAMBDA d : StrictEqBool(d, key, FALSE))
  IN  PremiumOfMedians(key,
                       ToNumber(Median(PricePerArea(withFeature))),
                       ToNumber(Median(PricePerArea(withoutFeature))),
                       ToNumber(Median([i \in DOMAIN data |-> Num(data[i].area)])),
                       Len(withFeature))

\* the guard of the forEach body: both subsets are non-empty
HasBothSubsets(data, key) ==
  /\ Len(SelectSeq(data, LAMBDA d : StrictEqBool(d, key, TRUE))) > 0
  /\ Len(SelectSeq(data, LAMBDA d : StrictEqBool(d, key, FALSE))) > 0

\* Object.values(calculateFeaturePremiums()): the entries in insertion order
calculateFeaturePremiums(data) ==
  LET computed == SelectSeq(FeatureKeys, LAMBDA key : HasBothSubsets(data, key))
  IN  [j \in DOMAIN computed |-> PremiumEntry(data, computed[j])]

\* a ranked-output filter without the sample-size test
IsRankedAnySample(d) == JsGt(d.premium, Num(0))

\* a ranked-output filter that needs more than MinSampleSize samples
IsRankedAboveMin(d) == JsGt(d.premium, Num(0)) /\ d.sampleSize > MinSampleSize

\* the filter of the ranked output
IsRanked(d) == JsGt(d.premium, Num(0)) /\ d.sampleSize >= MinSampleSize

\* a comparator that sorts ascending
ComparePremiumAscending(a, b) == JsSub(a.premium, b.premium)

\* the comparator (a, b) => b.premium - a.premium
ComparePremium(a, b) == JsSub(b.premium, a.premium)

\* s with e inserted before the first entry the comparator puts after it
RECURSIVE InsertRanked(_, _)
InsertRanked(s, e) ==
  IF s = <<>> THEN <<e>>
  ELSE IF JsLt(ComparePremium(e, Head(s)), Num(0)) THEN <<e>> \o s
  ELSE <<Head(s)>> \o InsertRanked(Tail(s), e)

\* Array.prototype.sort with ComparePremium (a stable sort)
RECURSIVE SortRanked(_)
SortRanked(s) ==
  IF s = <<>> THEN <<>>
  ELSE InsertRanked(SortRanked(SubSeq(s, 1, Len(s) - 1)), s[Len(s)])

\* premiumData for a data prop
PremiumData(data) == SortRanked(SelectSeq(calculateFeaturePremiums(data), IsRanked))

\* premiumData of the mounted chart
premiumData == PremiumData(filteredData)

---------------------------------------------------------------------------
(* The document as the FeaturePremiumChart effect leaves it *)

\* the chart-wrapper of the FeaturePremiumChart is rendered (App.js:230)
ChartMounted(chart) == chart = "all" \/ chart = "featurePremium"

\* filteredData is the realEstateData array itself: the useState initial value,
\* resetFilters, or the 'all' option of a filter select
IsSourceArray(op) == op.ctl \in {"init", "reset"} \/ op.value = "all"

\* premiumData[selectedFeature] || premiumData[0], for a non-empty ranked
\* output and a 0-based index
displayFeature(ranked, index) ==
  IF index < Len(ranked) THEN ranked[index + 1] ELSE ranked[1]

\* selectedFeature === 0
isBestROI(index) == index = 0

\* the document is followed: bars holds the feature keys of the bar groups of
\* the svg, in drawing order; box the insights box of the svg (no box, or one
\* box with its feature and whether it is labelled 'BEST VALUE'); tooltips the
\* number of 'tooltip-premium' elements of the body; pending tells that React
\* has rendered the chart and has yet to run its effect
Document(bars, box, tooltips, pending) ==
  [tracked |-> TRUE, bars |-> bars, box |-> box, tooltips |-> tooltips,
   pending |-> pending]

\* the document is not followed by the specification
Untracked ==
  [tracked |-> FALSE, bars |-> <<>>, box |-> <<>>, tooltips |-> 0,
   pending |-> FALSE]

\* the most tooltip elements a followed document holds
MaxTooltips == 6

\* the bar groups the effect appends, one per entry of premiumData
DrawnBars(ranked) == [i \in DOMAIN ranked |-> ranked[i].key]

\* the insights box the effect appends
DrawnBox(ranked, index) ==
  <<[feature |-> displayFeature(ranked, index).key, best |-> isBestROI(index)]>>

\* one run of the effect on a document whose svg holds bars and box and whose
\* body holds tooltips
FeaturePremiumEffect(bars, box, tooltips, ranked, index) ==
  IF Len(ranked) = 0 THEN Document(bars, box, tooltips, FALSE)
  ELSE Document(DrawnBars(ranked), DrawnBox(ranked, index),
                tooltips + Len(ranked), FALSE)

\* the effect callback of the FeaturePremiumChart, which React runs after the
\* render that changed data or selectedFeature and after the first render
FeaturePremiumUseEffect ==
  /\ document.tracked
  /\ document.pending
  /\ document' = FeaturePremiumEffect(document.bars, document.box,
                                      document.tooltips, premiumData,
                                      selectedFeature)
  /\ document'.tooltips <= MaxTooltips
  /\ UNCHANGED <<realEstateData, selectedChart, filteredData, bedroomFilter,
                 priceFilter, amenityFilter, selectedFeature, lastOp>>

\* the render that follows a handler: setsData tells whether the handler
\* called setFilteredData.  A handler runs when no effect is pending.  The
\* FeaturePremiumChart is unmounted with its svg when selectedChart hides it,
\* and mounted with an empty svg when selectedChart shows it again; its effect
\* is scheduled on mount and when data or selectedFeature changed
Render(setsData) ==
  /\ ~document.pending
  /\ IF ~document.tracked THEN document' = document
     ELSE IF ~ChartMounted(selectedChart')
       THEN document' = Document(<<>>, <<>>, document.tooltips, FALSE)
     ELSE
       LET mounting == ~ChartMounted(selectedChart)
           dataChanged ==
             setsData /\ ~(IsSourceArray(lastOp) /\ IsSourceArray(lastOp'))
       IN  document' =
             Document(IF mounting THEN <<>> ELSE document.bars,
                      IF mounting THEN <<>> ELSE document.box,
                      document.tooltips,
                      mounting \/ dataChanged \/ selectedFeature' # selectedFeature)

---------------------------------------------------------------------------
(* App.js: state and handlers *)

AppInit ==
  /\ selectedChart = "all"
  /\ filteredData = realEstateData
  /\ bedroomFilter = "all"
  /\ priceFilter = "all"
  /\ amenityFilter = "all"
  /\ selectedFeature = 0
  /\ document = Untracked
  /\ lastOp = [ctl |-> "init", value |-> "all"]

Init ==
  /\ realEstateData \in Datasets
  /\ AppInit

\* a bedroom-filter handler that filters the source array in place
BedroomFilterChangeInPlace(value) ==
  /\ bedroomFilter' = value
  /\ filteredData' = BedroomChoice(value)
  /\ realEstateData' = BedroomChoice(value)
  /\ lastOp' = [ctl |-> "bedroom", value |-> value]
  /\ UNCHANGED <<selectedChart, priceFilter, amenityFilter, selectedFeature>>
  /\ Render(TRUE)

\* onChange of the bedroom-filter select
BedroomFilterChange(value) ==
  /\ bedroomFilter' = value
  /\ filteredData' = BedroomChoice(value)
  /\ lastOp' = [ctl |-> "bedroom", value |-> value]
  /\ UNCHANGED <<realEstateData, selectedChart, priceFilter, amenityFilter,
                 selectedFeature>>
  /\ Render(TRUE)

\* onChange of the price-filter select
PriceFilterChange(value) ==
  /\ priceFilter' = value
  /\ filteredData' = PriceChoice(value)
  /\ lastOp' = [ctl |-> "price", value |-> value]
  /\ UNCHANGED <<realEstateData, selectedChart, bedroomFilter, amenityFilter,
                 selectedFeature>>
  /\ Render(TRUE)

\* onChange of the amenity-filter select
AmenityFilterChange(value) ==
  /\ amenityFilter' = value
  /\ filteredData' = AmenityChoice(value)
  /\ lastOp' = [ctl |-> "amenity", value |-> value]
  /\ UNCHANGED <<realEstateData, selectedChart, bedroomFilter, priceFilter,
                 selectedFeature>>
  /\ Render(TRUE)

\* a reset that forgets the amenity select
ResetFiltersKeepingAmenity ==
  /\ filteredData' = realEstateData
  /\ bedroomFilter' = "all"
  /\ priceFilter' = "all"
  /\ lastOp' = [ctl |-> "reset", value |-> "all"]
  /\ UNCHANGED <<realEstateData, selectedChart, amenityFilter, selectedFeature>>
  /\ Render(TRUE)

\* onClick of 'Reset All Filters'
ResetFilters ==
  /\ filteredData' = realEstateData
  /\ bedroomFilter' = "all"
  /\ priceFilter' = "all"
  /\ amenityFilter' = "all"
  /\ lastOp' = [ctl |-> "reset", value |-> "all"]
  /\ UNCHANGED <<realEstateData, selectedChart, selectedFeature>>
  /\ Render(TRUE)

\* a chart button that also resets the filters
SetSelectedChartResetting(key) ==
  /\ selectedChart' = key
  /\ selectedFeature' = IF ChartMounted(key) THEN selectedFeature ELSE 0
  /\ filteredData' = realEstateData
  /\ bedroomFilter' = "all"
  /\ priceFilter' = "all"
  /\ amenityFilter' = "all"
  /\ lastOp' = [ctl |-> "reset", value |-> "all"]
  /\ UNCHANGED realEstateData
  /\ Render(TRUE)

\* onClick of a chart button; the FeaturePremiumChart loses its state when it
\* is unmounted and starts from useState(0) when it is mounted again
SetSelectedChart(key) ==
  /\ selectedChart' = key
  /\ selectedFeature' = IF ChartMounted(key) THEN selectedFeature ELSE 0
  /\ UNCHANGED <<realEstateData, filteredData, bedroomFilter, priceFilter,
                 amenityFilter, lastOp>>
  /\ Render(FALSE)

Next ==
  \/ \E value \in BedroomValues : BedroomFilterChange(value)
  \/ \E value \in PriceValues : PriceFilterChange(value)
  \/ \E value \in AmenityValues : AmenityFilterChange(value)
  \/ ResetFilters
  \/ \E key \in ChartKeys : SetSelectedChart(key)

Spec == Init /\ [][Next]_vars

\* the three filter controls and the reset button alone
NextFilters ==
  \/ \E value \in BedroomValues : BedroomFilterChange(value)
  \/ \E value \in PriceValues : PriceFilterChange(value)
  \/ \E value \in AmenityValues : AmenityFilterChange(value)
  \/ ResetFilters

SpecFilters == Init /\ [][NextFilters]_vars

---------------------------------------------------------------------------
(* The feature-premium chart under the App's amenity filter *)

\* the listing shapes of the datasets the calculator is exercised on: price,
\* area, air conditioning, basement and preferred area vary
PremiumTemplate(id, t) ==
  CASE t = 1 -> Listing(id, 6000, 2000, 3, 2, 2, 1, TRUE,  TRUE,  FALSE, "furnished")
    [] t = 2 -> Listing(id, 1000, 1000, 2, 1, 1, 0, TRUE,  FALSE, FALSE, "furnished")
    [] t = 3 -> Listing(id, 4000, 2000, 3, 1, 2, 2, TRUE,  FALSE, FALSE, "unfurnished")
    [] t = 4 -> Listing(id, 1000, 1000, 2, 1, 1, 2, FALSE, TRUE,  FALSE, "unfurnished")
    [] t = 5 -> Listing(id, 2000, 1000, 3, 2, 1, 3, FALSE, TRUE,  FALSE, "semi-furnished")
    [] t = 6 -> Listing(id, 4000, 1000, 4, 2, 2, 0, FALSE, FALSE, TRUE,  "semi-furnished")

PremiumTemplateIds == 1..6

MaxPremiumListings == 6

\* the datasets of MaxPremiumListings listings, one for every composition
\* (the listings of a shape are adjacent)
PremiumDatasets ==
  { [i \in 1..MaxPremiumListings |-> PremiumTemplate(i, ts[i])] :
      ts \in { f \in [1..MaxPremiumListings -> PremiumTemplateIds] :
                 \A i \in 1..(MaxPremiumListings - 1) : f[i] <= f[i + 1] } }

InitPremium ==
  /\ realEstateData \in PremiumDatasets
  /\ AppInit

\* onChange of the DropdownSelector: one option per entry of premiumData
SetSelectedFeature(index) ==
  /\ index < Len(SelectSeq(FeatureKeys, LAMBDA key : HasBothSubsets(filteredData, key)))
  /\ index \in 0..(Len(premiumData) - 1)
  /\ selectedFeature' = index
  /\ UNCHANGED <<realEstateData, selectedChart, filteredData, bedroomFilter,
                 priceFilter, amenityFilter, lastOp>>
  /\ Render(FALSE)

NextPremium ==
  \/ \E value \in AmenityValues : AmenityFilterChange(value)
  \/ ResetFilters
  \/ \E index \in 0..(Len(FeatureKeys) - 1) : SetSelectedFeature(index)

SpecPremium == InitPremium /\ [][NextPremium]_vars

---------------------------------------------------------------------------
(* The feature-premium chart and the document it draws into *)

\* the listing shapes the last DocumentFree listings are drawn from
DocumentTemplateIds == {1, 2, 4}

DocumentListings == 7

DocumentFree == 3

\* datasets of DocumentListings listings: air-conditioned listings with a
\* basement, followed by DocumentFree listings of any composition of the
\* shapes DocumentTemplateIds
DocumentDatasets ==
  { [i \in 1..DocumentListings |->
       PremiumTemplate(i, IF i <= DocumentListings - DocumentFree THEN 1
                          ELSE ts[i - (DocumentListings - DocumentFree)])] :
      ts \in { f \in [1..DocumentFree -> DocumentTemplateIds] :
                 \A i \in 1..(DocumentFree - 1) : f[i] <= f[i + 1] } }

\* the first render: 'All Charts' mounts the FeaturePremiumChart on the whole
\* dataset and schedules its effect
InitDocument ==
  /\ realEstateData \in DocumentDatasets
  /\ selectedChart = "all"
  /\ filteredData = realEstateData
  /\ bedroomFilter = "all"
  /\ priceFilter = "all"
  /\ amenityFilter = "all"
  /\ selectedFeature = 0
  /\ document = Document(<<>>, <<>>, 0, TRUE)
  /\ lastOp = [ctl |-> "init", value |-> "all"]

\* a select fires onChange for another option than the one it shows; the
\* chart buttons of the views without and with the FeaturePremiumChart
NextDocument ==
  \/ \E value \in AmenityValues \ {amenityFilter} : AmenityFilterChange(value)
  \/ ResetFilters
  \/ \E index \in 0..(Len(FeatureKeys) - 1) : SetSelectedFeature(index)
  \/ \E key \in {"donut", "featurePremium"} : SetSelectedChart(key)
  \/ FeaturePremiumUseEffect

SpecDocument == InitDocument /\ [][NextDocument]_vars

---------------------------------------------------------------------------
(* Properties *)

Range(s) == { s[i] : i \in DOMAIN s }

SumCounts(groups) == SumSeq([j \in DOMAIN groups |-> groups[j].count])

\* C1: for every grouping of the donut chart and of the heatmap, the counts
\* of the produced groups add up to the number of listings in the subset
C1_GroupCountsSumToSubsetSize ==
  /\ \A type \in AnalysisTypes :
       SumCounts(processDataByType(type, filteredData)) = Len(filteredData)
  /\ \A viewMode \in ViewModes :
       SumCounts(heatmapData(viewMode, filteredData)) = Len(filteredData)

\* a filtered subset whose groupings have several groups, one of them with
\* several listings whose key occurs on both sides of another key
C1_Witness ==
  /\ lastOp.ctl = "amenity"
  /\ Len(filteredData) >= 4
  /\ \E i, j, k \in DOMAIN filteredData :
       /\ i < j /\ j < k
       /\ filteredData[i].bedrooms = filteredData[k].bedrooms
       /\ filteredData[i].bedrooms # filteredData[j].bedrooms
  /\ Len(processDataByType("bedrooms", filteredData)) >= 2
  /\ \E c \in Range(heatmapData("stories", filteredData)) : c.count >= 2

\* the "has" and the "lacks" subset of an amenity
HasSubset(data, key) == SelectSeq(data, LAMBDA d : StrictEqBool(d, key, TRUE))

LacksSubset(data, key) == SelectSeq(data, LAMBDA d : StrictEqBool(d, key, FALSE))

RankedKeys == { premiumData[j].key : j \in DOMAIN premiumData }

\* the premium the calculator derives for an amenity: the difference of the
\* median price-per-area of the two subsets, scaled by the median area
PremiumPerArea(data, key) ==
  JsSub(ToNumber(Median(PricePerArea(HasSubset(data, key)))),
        ToNumber(Median(PricePerArea(LacksSubset(data, key)))))

PremiumOf(data, key) ==
  JsMul(PremiumPerArea(data, key),
        ToNumber(Median([i \in DOMAIN data |-> Num(data[i].area)])))

\* C4: an amenity with fewer than 5 listings in its "has" subset is never in
\* the ranked output
C4_SmallSampleAbsent ==
  LET ranked == RankedKeys
  IN  \A key \in Range(FeatureKeys) :
        Len(HasSubset(filteredData, key)) < 5 => key \notin ranked

\* an amenity with 4 "has" listings and a positive premium is absent while
\* another amenity is ranked
C4_Witness ==
  /\ \E key \in Range(FeatureKeys) :
       /\ Len(HasSubset(filteredData, key)) = 4
       /\ Len(LacksSubset(filteredData, key)) > 0
       /\ JsGt(PremiumOf(filteredData, key), Num(0))
       /\ key \notin RankedKeys
  /\ premiumData # <<>>

\* the boolean amenities of the feature list (parking is a count)
BooleanAmenities == Range(FeatureKeys) \ {"parking"}

\* C5 as stated: every boolean amenity with both subsets non-empty and at
\* least 5 "has" listings is in the ranked output
C5_Original ==
  \A key \in BooleanAmenities :
    ( /\ Len(HasSubset(filteredData, key)) >= 5
      /\ Len(LacksSubset(filteredData, key)) > 0 )
    => key \in RankedKeys

\* C5 amended: every boolean amenity with both subsets non-empty, at least 5
\* "has" listings and a positive premium is in the ranked output, with its
\* absolute and its percentage difference
C5_PositivePremiumReported ==
  LET ranked == premiumData
  IN  \A key \in BooleanAmenities :
        ( /\ Len(HasSubset(filteredData, key)) >= 5
          /\ Len(LacksSubset(filteredData, key)) > 0
          /\ JsGt(PremiumOf(filteredData, key), Num(0)) )
        => \E j \in DOMAIN ranked :
             /\ ranked[j].key = key
             /\ ranked[j].premium = PremiumOf(filteredData, key)
             /\ ranked[j].premiumPerSqFt = PremiumPerArea(filteredData, key)
             /\ ranked[j].premiumPercent =
                  JsMul(JsDiv(PremiumPerArea(filteredData, key),
                              ToNumber(Median(PricePerArea(LacksSubset(filteredData, key))))),
                        Num(100))

\* an amenity with exactly 5 "has" listings and a positive premium is ranked
C5_Witness ==
  \E key \in BooleanAmenities :
    /\ Len(HasSubset(filteredData, key)) = 5
    /\ Len(LacksSubset(filteredData, key)) > 0
    /\ JsGt(PremiumOf(filteredData, key), Num(0))
    /\ key \in RankedKeys

\* C6: the ranked output is in descending order of premium
C6_SortedDescending ==
  LET ranked == premiumData
  IN  \A j \in 1..(Len(ranked) - 1) :
        JsGeq(ranked[j].premium, ranked[j + 1].premium)

\* two ranked amenities with different premiums, in the reverse of their
\* order in the feature list
C6_Witness ==
  /\ Len(premiumData) >= 2
  /\ premiumData[1].key = "basement"
  /\ premiumData[2].key = "airconditioning"
  /\ JsGt(premiumData[1].premium, premiumData[2].premium)

---------------------------------------------------------------------------
(* The example dataset of the feature-premium calculator *)

\* 4 listings with air conditioning whose price-per-area values have median
\* 500 and 6 without whose values have median 400
ExamplePerArea(ac, inner, outer, spread) ==
  IF ac THEN <<500 - inner - outer, 500 - inner, 500 + inner, 500 + inner + outer>>
        ELSE <<100, 400 - spread, 400 - spread, 400 + spread, 400 + spread, 900>>

\* the positions of the listings with air conditioning, for a layout
ExampleAcPositions(layout) == IF layout = 1 THEN {1, 2, 3, 4} ELSE {2, 4, 7, 10}

ExampleListing(id, ac, perArea, area) ==
  Listing(id, perArea * area, area, 3, 2, 2, 1, ac, FALSE, FALSE, "furnished")

\* rank of position i among the positions of P
RankIn(P, i) == Cardinality({ j \in P : j <= i })

ExampleDataset(layout, inner, outer, spread, areaWith, areaWithout) ==
  LET pos == ExampleAcPositions(layout)
  IN  [i \in 1..(4 + 6) |->
         IF i \in pos
           THEN ExampleListing(i, TRUE,
                  ExamplePerArea(TRUE, inner, outer, spread)[RankIn(pos, i)], areaWith)
           ELSE ExampleListing(i, FALSE,
                  ExamplePerArea(FALSE, inner, outer, spread)[RankIn((1..(4 + 6)) \ pos, i)],
                  areaWithout)]

ExampleAreas == {1, 2, 1000}

ExampleDatasets ==
  { ExampleDataset(layout, inner, outer, spread, areaWith, areaWithout) :
      layout \in {1, 2}, inner \in {0, 100}, outer \in {0, 100}, spread \in {0, 100},
      areaWith \in ExampleAreas, areaWithout \in ExampleAreas }

InitExample ==
  /\ realEstateData \in ExampleDatasets
  /\ AppInit

NextExample ==
  \/ ResetFilters
  \/ \E key \in ChartKeys : SetSelectedChart(key)

SpecExample == InitExample /\ [][NextExample]_vars

---------------------------------------------------------------------------
(* Properties of the stats panel, the filters and the example *)

\* C2 as stated: on an empty subset every aggregation path yields a total
\* count of zero and produces no NaN and no Infinity
C2_EmptySubsetNoNaN ==
  Len(filteredData) = 0 =>
    /\ StatsValues(filteredData).totalHouses = 0
    /\ IsFinite(StatsValues(filteredData).avgPrice)
    /\ IsFinite(StatsValues(filteredData).avgArea)
    /\ IsFinite(StatsValues(filteredData).minPrice)
    /\ IsFinite(StatsValues(filteredData).maxPrice)
    /\ \A type \in AnalysisTypes : processDataByType(type, filteredData) = <<>>
    /\ \A viewMode \in ViewModes : heatmapData(viewMode, filteredData) = <<>>
    /\ \A b \in Range(uniformBins(filteredData, HistogramVariable, BinCount)) :
         b.length = 0 /\ IsFinite(b.x0) /\ IsFinite(b.x1)
    /\ premiumData = <<>>

\* the listings of the dataset that a sequence of listings holds
IdsOf(data) == { data[k].id : k \in DOMAIN data }

\* C3 as stated: filteredData is the listings of the dataset that satisfy the
\* three displayed filter values at once
C3_FiltersDescribeData ==
  filteredData =
    SelectSeq(realEstateData, LAMBDA d :
      /\ d.id \in IdsOf(BedroomChoice(bedroomFilter))
      /\ d.id \in IdsOf(PriceChoice(priceFilter))
      /\ d.id \in IdsOf(AmenityChoice(amenityFilter)))

\* the entry of calculateFeaturePremiums for air conditioning, if computed
AcEntries ==
  SelectSeq(calculateFeaturePremiums(filteredData),
            LAMBDA e : e.key = "airconditioning")

\* C7 as stated: on the example the calculator yields a premium of +100 and
\* a premium percentage of +25 for air conditioning
C7_Original ==
  /\ Len(AcEntries) = 1
  /\ AcEntries[1].premium = Num(100)
  /\ AcEntries[1].premiumPercent = Num(25)

\* C7 amended: on the example the calculator computes for air conditioning a
\* per-area premium of +100 and a percentage of +25; its premium field is 100
\* times the median area, and with 4 "has" listings it is not ranked
C7_ExamplePerAreaPremium ==
  /\ Len(AcEntries) = 1
  /\ AcEntries[1].sampleSize = 4
  /\ AcEntries[1].pricePerSqFtWith = Num(500)
  /\ AcEntries[1].pricePerSqFtWithout = Num(400)
  /\ AcEntries[1].premiumPerSqFt = Num(100)
  /\ AcEntries[1].premiumPercent = Num(25)
  /\ AcEntries[1].premium = JsMul(Num(100), AcEntries[1].avgHouseSize)
  /\ "airconditioning" \notin RankedKeys

\* the example with the two middle values of each subset apart and a median
\* area of 1000
C7_Witness ==
  /\ Len(filteredData) = 10
  /\ Len(HasSubset(filteredData, "airconditioning")) = 4
  /\ Len(LacksSubset(filteredData, "airconditioning")) = 6
  /\ filteredData[2].price = 400 * filteredData[2].area
  /\ filteredData[1].price = 100 * filteredData[1].area
  /\ Len(AcEntries) = 1
  /\ AcEntries[1].avgHouseSize = Num(1000)
  /\ AcEntries[1].premium = Num(100000)

\* the lower bounds of the bedroom ranges examined
BedroomBounds == 1..6

\* the bedroom count a donut label of the bedrooms analysis starts with
\* (parseInt(status.split(' ')[0]))
LabelBedrooms(status) ==
  CHOOSE n \in 0..9 : status = CountLabel(n, "Bedroom", "Bedrooms")

\* C9: filtering by a bedroom range and then grouping by bedroom count gives
\* the groups, counts and mean prices that grouping the whole dataset and
\* discarding the groups outside the range gives
C9_FilterThenGroup ==
  /\ LET donutOfAll == processDataByType("bedrooms", realEstateData)
         barsOfAll  == BarChartData(realEstateData)
     IN  \A minBed \in BedroomBounds : \A maxBed \in minBed..6 :
           /\ processDataByType("bedrooms", BedroomsSubset(minBed, maxBed)) =
                SelectSeq(donutOfAll,
                          LAMBDA g : /\ LabelBedrooms(g.status) >= minBed
                                     /\ LabelBedrooms(g.status) <= maxBed)
           /\ BarChartData(BedroomsSubset(minBed, maxBed)) =
                SelectSeq(barsOfAll,
                          LAMBDA g : g.bedrooms >= minBed /\ g.bedrooms <= maxBed)
  /\ lastOp.ctl = "bedroom" /\ lastOp.value # "all" =>
       LET lo == CASE lastOp.value = "small" -> 1 [] lastOp.value = "medium" -> 3
                   [] lastOp.value = "large" -> 4
           hi == CASE lastOp.value = "small" -> 2 [] lastOp.value = "medium" -> 3
                   [] lastOp.value = "large" -> 6
       IN  BarChartData(filteredData) =
             SelectSeq(BarChartData(realEstateData),
                       LAMBDA g : g.bedrooms >= lo /\ g.bedrooms <= hi)

\* a bedroom filter that kept one of two bedroom groups
C9_Witness ==
  /\ lastOp.ctl = "bedroom"
  /\ lastOp.value = "small"
  /\ Len(filteredData) >= 1
  /\ Len(BarChartData(filteredData)) = 1
  /\ Len(BarChartData(realEstateData)) = 2
  /\ BarChartData(filteredData)[1].bedrooms = 2

\* data is exactly the listings of the dataset that satisfy Test, in dataset
\* order
ExactlyThose(data, Test(_)) ==
  /\ \A k \in DOMAIN data :
       /\ data[k].id \in DOMAIN realEstateData
       /\ data[k] = realEstateData[data[k].id]
  /\ \A k \in 1..(Len(data) - 1) : data[k].id < data[k + 1].id
  /\ IdsOf(data) = { i \in DOMAIN realEstateData : Test(realEstateData[i]) }

PriceBounds == {0, 4000000, 8000000}

\* C10: every filter operation produces exactly the listings of the dataset
\* that satisfy its predicate, in dataset order
C10_FilterExact ==
  /\ \A minBed \in BedroomBounds : \A maxBed \in minBed..6 :
       ExactlyThose(BedroomsSubset(minBed, maxBed),
                    LAMBDA d : minBed <= d.bedrooms /\ d.bedrooms <= maxBed)
  /\ \A minPrice \in PriceBounds : \A maxPrice \in PriceBounds :
       ExactlyThose(PriceSubset(Num(minPrice), Num(maxPrice)),
                    LAMBDA d : minPrice <= d.price /\ d.price <= maxPrice)
  /\ \A minPrice \in PriceBounds :
       ExactlyThose(PriceSubset(Num(minPrice), Infinity),
                    LAMBDA d : minPrice <= d.price)
  /\ lastOp.ctl = "amenity" /\ lastOp.value = "ac" =>
       ExactlyThose(filteredData, LAMBDA d : d.airconditioning)
  /\ lastOp.ctl = "amenity" /\ lastOp.value = "basement" =>
       ExactlyThose(filteredData, LAMBDA d : d.basement)
  /\ lastOp.ctl = "amenity" /\ lastOp.value = "parking" =>
       ExactlyThose(filteredData, LAMBDA d : d.parking >= 2)
  /\ lastOp.ctl = "bedroom" /\ lastOp.value = "small" =>
       ExactlyThose(filteredData, LAMBDA d : 1 <= d.bedrooms /\ d.bedrooms <= 2)
  /\ lastOp.ctl = "price" /\ lastOp.value = "affordable" =>
       ExactlyThose(filteredData, LAMBDA d : 0 <= d.price /\ d.price <= 4000000)

\* the affordable segment kept a listing priced exactly 4,000,000 and dropped
\* a dearer one
C10_Witness ==
  /\ lastOp.ctl = "price"
  /\ lastOp.value = "affordable"
  /\ Len(realEstateData) = 2
  /\ Len(filteredData) = 1
  /\ filteredData[1].price = 4000000
  /\ filteredData[1].id = 2

---------------------------------------------------------------------------
(* Properties of the source dataset and of grouping *)

\* C11: no filter selection, reset or chart selection changes the source
\* dataset: every step leaves its length, its order and every listing's
\* fields as loaded (the handlers build new arrays with Array.prototype.filter
\* and the charts derive theirs with map, rollup and Array.from)
C11_SourceNeverMutated == [][realEstateData' = realEstateData]_vars

\* a bedroom filter has acted and kept a proper part of a two-listing dataset
C11_Witness ==
  /\ lastOp.ctl = "bedroom"
  /\ lastOp.value = "medium"
  /\ Len(realEstateData) = 2
  /\ Len(filteredData) = 1
  /\ selectedChart = "histogram"

\* the index at which the key k first occurs in the key sequence keys
FirstIndex(keys, k) ==
  CHOOSE i \in DOMAIN keys : keys[i] = k /\ \A j \in 1..(i - 1) : keys[j] # k

\* every observed key is exactly one group, and the group counts the listings
\* that have the key
GroupsComplete(groupKeys, counts, keys) ==
  /\ Range(groupKeys) = Range(keys)
  /\ \A j, k \in DOMAIN groupKeys : j # k => groupKeys[j] # groupKeys[k]
  /\ \A j \in DOMAIN groupKeys :
       /\ counts[j] >= 1
       /\ counts[j] = Cardinality({ i \in DOMAIN keys : keys[i] = groupKeys[j] })

\* the groups come in the order in which their keys first occur
InFirstOccurrenceOrder(groupKeys, keys) ==
  \A j, k \in DOMAIN groupKeys :
     j < k => FirstIndex(keys, groupKeys[j]) < FirstIndex(keys, groupKeys[k])

DonutKeys(type) == [i \in DOMAIN filteredData |-> DonutKey(type, filteredData[i])]

DonutGroupKeys(type) ==
  LET groups == processDataByType(type, filteredData)
  IN  [j \in DOMAIN groups |-> groups[j].status]

DonutGroupCounts(type) ==
  LET groups == processDataByType(type, filteredData)
  IN  [j \in DOMAIN groups |-> groups[j].count]

HeatmapXs(viewMode) ==
  [i \in DOMAIN filteredData |-> HeatmapX(viewMode, filteredData[i])]

HeatmapPairs(viewMode) ==
  [i \in DOMAIN filteredData |->
     <<HeatmapX(viewMode, filteredData[i]), HeatmapY(viewMode, filteredData[i])>>]

HeatmapCellKeys(viewMode) ==
  LET cells == heatmapData(viewMode, filteredData)
  IN  [j \in DOMAIN cells |-> <<cells[j].x, cells[j].y>>]

HeatmapCellCounts(viewMode) ==
  LET cells == heatmapData(viewMode, filteredData)
  IN  [j \in DOMAIN cells |-> cells[j].count]

\* C12 as stated: every observed key, or key pair, is exactly one group with
\* count >= 1, and the groups of the donut and the cells of the heatmap come
\* in the order in which their key, or key pair, first occurs in the subset
C12_Original ==
  /\ \A type \in AnalysisTypes :
       /\ GroupsComplete(DonutGroupKeys(type), DonutGroupCounts(type), DonutKeys(type))
       /\ InFirstOccurrenceOrder(DonutGroupKeys(type), DonutKeys(type))
  /\ \A viewMode \in ViewModes :
       /\ GroupsComplete(HeatmapCellKeys(viewMode), HeatmapCellCounts(viewMode),
                         HeatmapPairs(viewMode))
       /\ InFirstOccurrenceOrder(HeatmapCellKeys(viewMode), HeatmapPairs(viewMode))

\* the cells of the heatmap come by the first occurrence of their x key and,
\* for one x key, by the first occurrence of the key pair
HeatmapOrder(viewMode) ==
  LET cellKeys == HeatmapCellKeys(viewMode)
      xs       == HeatmapXs(viewMode)
      pairs    == HeatmapPairs(viewMode)
  IN  \A j, k \in DOMAIN cellKeys :
         j < k =>
           \/ FirstIndex(xs, cellKeys[j][1]) < FirstIndex(xs, cellKeys[k][1])
           \/ /\ cellKeys[j][1] = cellKeys[k][1]
              /\ FirstIndex(pairs, cellKeys[j]) < FirstIndex(pairs, cellKeys[k])

\* the donut's bedroom categories are the rollup's groups rearranged by
\* their index in bedroomOrder, groups of one index in the rollup's order
DonutBedroomOrder ==
  LET groups == processDataByType("bedrooms", filteredData)
      drawn  == chartData("bedrooms", filteredData)
  IN  /\ Len(drawn) = Len(groups)
      /\ Range(drawn) = Range(groups)
      /\ \A j, k \in DOMAIN drawn :
           j < k =>
             \/ OrderIndex(drawn[j].status) < OrderIndex(drawn[k].status)
             \/ /\ OrderIndex(drawn[j].status) = OrderIndex(drawn[k].status)
                /\ FirstIndex(DonutGroupKeys("bedrooms"), drawn[j].status)
                     < FirstIndex(DonutGroupKeys("bedrooms"), drawn[k].status)

\* C12, amended: every observed key, or key pair, is exactly one group with
\* count >= 1 and no group is dropped for being small; the donut's rollup
\* yields its groups in the order in which their key first occurs (the
\* bedroom categories are then drawn in the fixed order of bedroomOrder); the
\* heatmap yields its cells by the first occurrence of the x key and, for one
\* x key, by the first occurrence of the pair, which is not the order in
\* which the key pairs first occur
C12_GroupingCompleteAndOrdered ==
  /\ \A type \in AnalysisTypes :
       /\ GroupsComplete(DonutGroupKeys(type), DonutGroupCounts(type), DonutKeys(type))
       /\ InFirstOccurrenceOrder(DonutGroupKeys(type), DonutKeys(type))
       /\ type # "bedrooms" => chartData(type, filteredData) = processDataByType(type, filteredData)
  /\ DonutBedroomOrder
  /\ \A viewMode \in ViewModes :
       /\ GroupsComplete(HeatmapCellKeys(viewMode), HeatmapCellCounts(viewMode),
                         HeatmapPairs(viewMode))
       /\ HeatmapOrder(viewMode)

\* an amenity-filtered subset whose bedroom and bathroom pairs are (3,2), (2,1),
\* (3,1): the heatmap yields (3,2), (3,1), (2,1), with single-listing cells,
\* and the donut draws its bedroom categories in another order than the
\* rollup's
C12_Witness ==
  /\ lastOp.ctl = "amenity"
  /\ Len(filteredData) = 3
  /\ HeatmapPairs("bedrooms")[1] = <<3, 2>>
  /\ HeatmapPairs("bedrooms")[2] = <<2, 1>>
  /\ HeatmapPairs("bedrooms")[3] = <<3, 1>>
  /\ SubSeq(HeatmapCellKeys("bedrooms"), 1, 3) = << <<3, 2>>, <<3, 1>>, <<2, 1>> >>
  /\ \E j \in DOMAIN HeatmapCellCounts("bedrooms") : HeatmapCellCounts("bedrooms")[j] = 1
  /\ chartData("bedrooms", filteredData) # processDataByType("bedrooms", filteredData)

---------------------------------------------------------------------------
(* The feature-premium calculator on prices and areas whose ratios need
   rounding *)

RatioPrices == {0, 1000, 3000, 7000}

RatioAreas == {1000, 3000, 5000}

RatioCopies == {1, 5}

\* copies listings with air conditioning of one price and area, followed by
\* one listing without
RatioDataset(priceWith, areaWith, priceWithout, areaWithout, copies) ==
  [i \in 1..(copies + 1) |->
     IF i <= copies
       THEN Listing(i, priceWith, areaWith, 3, 2, 2, 1, TRUE, FALSE, FALSE, "furnished")
       ELSE Listing(i, priceWithout, areaWithout, 3, 2, 2, 1, FALSE, FALSE, FALSE, "furnished")]

RatioDatasets ==
  { RatioDataset(priceWith, areaWith, priceWithout, areaWithout, copies) :
      priceWith \in RatioPrices, areaWith \in RatioAreas,
      priceWithout \in RatioPrices, areaWithout \in RatioAreas,
      copies \in RatioCopies }

InitRatio ==
  /\ realEstateData \in RatioDatasets
  /\ AppInit

SpecRatio == InitRatio /\ [][NextPremium]_vars

---------------------------------------------------------------------------
(* Properties of the feature-premium calculator's arithmetic *)

\* the entries calculateFeaturePremiums computes for the current subset
ComputedEntries == calculateFeaturePremiums(filteredData)

\* C13 as stated: an amenity whose "has" or "lacks" subset is empty is
\* skipped, and no value reported for a computed amenity is NaN or an
\* infinity, also when the median price-per-area of the "lacks" subset is 0
C13_NoNaNNoInfinity ==
  LET entries == ComputedEntries
  IN  /\ \A key \in Range(FeatureKeys) :
           ( \/ Len(SelectSeq(filteredData, LAMBDA d : StrictEqBool(d, key, TRUE))) = 0
             \/ Len(SelectSeq(filteredData, LAMBDA d : StrictEqBool(d, key, FALSE))) = 0 )
           => \A j \in DOMAIN entries : entries[j].key # key
      /\ \A j \in DOMAIN entries :
           /\ IsFinite(entries[j].premiumPercent)
           /\ IsFinite(entries[j].premium)
           /\ IsFinite(entries[j].basePrice)
           /\ IsFinite(entries[j].withFeaturePrice)

\* C14 as stated: for every amenity of the feature list, parking included,
\* every listing of the subset is in exactly one of the "has" and the "lacks"
\* subset, so the two sizes add up to the subset size
C14_HasLacksPartition ==
  \A key \in Range(FeatureKeys) :
    LET has   == SelectSeq(filteredData, LAMBDA d : StrictEqBool(d, key, TRUE))
        lacks == SelectSeq(filteredData, LAMBDA d : StrictEqBool(d, key, FALSE))
    IN  /\ \A i \in DOMAIN filteredData :
             (filteredData[i] \in Range(has)) # (filteredData[i] \in Range(lacks))
        /\ Len(has) + Len(lacks) = Len(filteredData)

\* the median price-per-area of the listings of the subset whose amenity key
\* is the boolean b
MedianPerArea(key, b) ==
  LET subset == SelectSeq(filteredData, LAMBDA d : StrictEqBool(d, key, b))
  IN  ToNumber(Median([i \in DOMAIN subset |->
                         JsDiv(Num(subset[i].price), Num(subset[i].area))]))

\* the median area of the subset
MedianArea ==
  ToNumber(Median([i \in DOMAIN filteredData |-> Num(filteredData[i].area)]))

\* the three identities of an entry that hold as computed
DifferenceIdentities(e) ==
  /\ e.premiumPerSqFt = JsSub(MedianPerArea(e.key, TRUE), MedianPerArea(e.key, FALSE))
  /\ e.premiumPercent =
       JsMul(JsDiv(e.premiumPerSqFt, MedianPerArea(e.key, FALSE)), Num(100))
  /\ e.premium = JsMul(e.premiumPerSqFt, MedianArea)

\* C15 as stated: for every computed amenity premiumPerSqFt is the "has"
\* median price-per-area minus the "lacks" median, premiumPercent is
\* premiumPerSqFt divided by the "lacks" median times 100, premium is
\* premiumPerSqFt times the median area, and basePrice + premium equals
\* withFeaturePrice
C15_Original ==
  LET entries == ComputedEntries
  IN  \A j \in DOMAIN entries :
        /\ DifferenceIdentities(entries[j])
        /\ JsAdd(entries[j].basePrice, entries[j].premium) = entries[j].withFeaturePrice

\* |x|
AbsNum(x) == IF x.sign < 0 THEN Neg(x) ELSE x

\* the larger of two numbers
MaxNum(a, b) == IF JsLt(a, b) THEN b ELSE a

\* 2^-50, eight units in the last place of a number in [1, 2)
RoundingTolerance == [kind |-> "finite", sign |-> 1, sig |-> <<1>>, exp |-> -50]

\* basePrice + premium is withFeaturePrice up to the rounding of the four
\* operations that produce them
SumWithinRounding(e) ==
  LET largest == MaxNum(AbsNum(e.basePrice),
                        MaxNum(AbsNum(e.premium), AbsNum(e.withFeaturePrice)))
      gap     == AbsNum(JsSub(JsAdd(e.basePrice, e.premium), e.withFeaturePrice))
  IN  JsLeq(gap, JsMul(RoundingTolerance, largest))

\* C15, amended: the first three identities hold as computed; basePrice +
\* premium equals withFeaturePrice only up to floating-point rounding (the
\* two differ by at most 2^-50 times the largest of the three magnitudes),
\* not always exactly
C15_IdentitiesUpToRounding ==
  LET entries == ComputedEntries
  IN  \A j \in DOMAIN entries :
        /\ DifferenceIdentities(entries[j])
        /\ SumWithinRounding(entries[j])

\* after a filter selection a ranked amenity's basePrice and premium do not
\* add up to its withFeaturePrice: 600 + 399.9999999999999 against 1000
C15_Witness ==
  /\ lastOp.ctl = "amenity"
  /\ lastOp.value = "all"
  /\ Len(premiumData) = 1
  /\ premiumData[1].sampleSize = 5
  /\ premiumData[1].basePrice = Num(600)
  /\ premiumData[1].withFeaturePrice = Num(1000)
  /\ JsLt(premiumData[1].premium, Num(400))
  /\ JsLt(JsAdd(premiumData[1].basePrice, premiumData[1].premium), Num(1000))
  /\ SumWithinRounding(premiumData[1])

---------------------------------------------------------------------------
(* Properties of the heatmap *)

\* the listings of the subset whose keys in a view mode are x and y
ListingsAt(viewMode, x, y, Key(_)) ==
  SelectSeq(filteredData, LAMBDA d : HeatmapX(viewMode, d) = x /\ Key(d) = y)

\* C16: every heatmap cell has count >= 1 and counts, holds and averages the
\* prices of exactly the listings that share its key pair; its x and y keys
\* belong to the axis domains of the view mode, and every listing of the
\* subset is counted in a cell
C16_CellsOnGrid ==
  \A viewMode \in ViewModes :
    LET cells == heatmapData(viewMode, filteredData)
        xs    == Range(xDomain(viewMode, filteredData))
        ys    == Range(yDomain(viewMode, filteredData))
    IN  /\ \A j \in DOMAIN cells :
             LET c    == cells[j]
                 here == CASE viewMode = "bedrooms" ->
                                ListingsAt(viewMode, c.x, c.y, LAMBDA d : d.bathrooms)
                           [] viewMode = "bathrooms" ->
                                ListingsAt(viewMode, c.x, c.y, LAMBDA d : d.stories)
                           [] OTHER ->
                                ListingsAt(viewMode, c.x, c.y,
                                           LAMBDA d : IF d.parking < 3 THEN d.parking ELSE 3)
             IN  /\ c.count >= 1
                 /\ c.count = Len(here)
                 /\ c.properties = here
                 /\ c.avgPrice =
                      JsDiv(Num(SumSeq([i \in DOMAIN here |-> here[i].price])),
                            Num(Len(here)))
                 /\ c.x \in xs
                 /\ c.y \in ys
        /\ \A i \in DOMAIN filteredData :
             \E j \in DOMAIN cells : filteredData[i] \in Range(cells[j].properties)

\* a cell of three listings whose mean price is not a whole number, next to
\* other cells
C16_Witness ==
  /\ lastOp.ctl = "amenity"
  /\ \E c \in Range(heatmapData("bathrooms", filteredData)) :
       /\ c.count = 3
       /\ c.avgPrice # MathRound(c.avgPrice)
  /\ Len(heatmapData("bathrooms", filteredData)) >= 3
  /\ Len(heatmapData("stories", filteredData)) >= 3

\* C18: in the stories view every cell's y key is one of 0, 1, 2, 3, and the
\* cell (s, 3) counts exactly the listings with s stories and 3 or more
\* parking spaces
C18_ParkingCappedAtThree ==
  LET cells == heatmapData("stories", filteredData)
  IN  /\ \A j \in DOMAIN cells : cells[j].y \in {0, 1, 2, 3}
      /\ \A s \in { filteredData[i].stories : i \in DOMAIN filteredData } :
           LET atLeastThree ==
                 SelectSeq(filteredData, LAMBDA d : d.stories = s /\ d.parking >= 3)
               capped == { j \in DOMAIN cells : cells[j].x = s /\ cells[j].y = 3 }
           IN  IF atLeastThree = <<>> THEN capped = {}
               ELSE /\ Cardinality(capped) = 1
                    /\ \A j \in capped :
                         /\ cells[j].count = Len(atLeastThree)
                         /\ cells[j].properties = atLeastThree

\* the parking filter kept a listing with 3 and one with 4 parking spaces on
\* the same number of stories: they share the cell (3, 3)
C18_Witness ==
  /\ lastOp.ctl = "amenity"
  /\ lastOp.value = "parking"
  /\ Len(filteredData) = 2
  /\ filteredData[1].parking = 3
  /\ filteredData[2].parking = 4
  /\ filteredData[1].stories = filteredData[2].stories
  /\ Len(heatmapData("stories", filteredData)) = 1
  /\ heatmapData("stories", filteredData)[1].y = 3
  /\ heatmapData("stories", filteredData)[1].count = 2

---------------------------------------------------------------------------
(* Properties of the histogram and of the filter segments *)

\* C17 as stated: in the histogram of a non-empty subset every listing is
\* counted in exactly one bin, so the bin counts add up to the subset size,
\* and when all values are equal every listing falls in the last bin
C17_EveryListingInOneBin ==
  Len(filteredData) > 0 =>
    LET bins   == uniformBins(filteredData, HistogramVariable, BinCount)
        values == [i \in DOMAIN filteredData |->
                     getVariableValue(filteredData[i], HistogramVariable)]
    IN  /\ \A i \in DOMAIN filteredData :
             Cardinality({ k \in DOMAIN bins : filteredData[i] \in Range(bins[k].data) }) = 1
        /\ SumSeq([k \in DOMAIN bins |-> bins[k].length]) = Len(filteredData)
        /\ (\A i \in DOMAIN values : values[i] = values[1]) =>
             bins[BinCount].length = Len(filteredData)

\* the segments of the price filter that contain a listing
PriceSegmentsOf(d) ==
  { value \in PriceValues \ {"all"} : d \in Range(PriceChoice(value)) }

\* C19 as stated: every listing belongs to exactly one of the price segments
\* 'affordable', 'premium' and 'luxury', also one priced exactly 4,000,000 or
\* 8,000,000
C19_PriceSegmentsPartition ==
  \A i \in DOMAIN realEstateData :
    Cardinality(PriceSegmentsOf(realEstateData[i])) = 1

\* listings of 1 to 8 bedrooms that differ in nothing else
BoundaryBedrooms == 1..8

BoundaryListing(id, beds) ==
  Listing(id, 5000000, 3000, beds, 2, 2, 1, FALSE, FALSE, FALSE, "furnished")

\* the datasets of one listing or of two listings with increasing bedrooms
BoundaryDatasets ==
  { <<BoundaryListing(1, b)>> : b \in BoundaryBedrooms }
    \cup { <<BoundaryListing(1, b[1]), BoundaryListing(2, b[2])>> :
             b \in { c \in BoundaryBedrooms \X BoundaryBedrooms : c[1] < c[2] } }

InitBoundary ==
  /\ realEstateData \in BoundaryDatasets
  /\ AppInit

SpecBoundary == InitBoundary /\ [][NextFilters]_vars

\* the segments of the bedroom filter that contain a listing
BedroomSegmentsOf(d) ==
  { value \in BedroomValues \ {"all"} : d \in Range(BedroomChoice(value)) }

\* C20 as stated: every listing with at least 1 bedroom is in exactly one of
\* the segments 'small' (1-2 bedrooms), 'medium' (3 bedrooms) and 'large',
\* and 'large' contains every listing with 4 or more bedrooms
C20_BedroomSegmentsCover ==
  \A i \in DOMAIN realEstateData :
    LET d == realEstateData[i]
    IN  d.bedrooms >= 1 =>
          /\ Cardinality(BedroomSegmentsOf(d)) = 1
          /\ ("small" \in BedroomSegmentsOf(d)) = (d.bedrooms \in {1, 2})
          /\ ("medium" \in BedroomSegmentsOf(d)) = (d.bedrooms = 3)
          /\ ("large" \in BedroomSegmentsOf(d)) = (d.bedrooms >= 4)

\* C21: a click on 'Reset All Filters' sets filteredData to the whole dataset
\* and the three filter selections to 'all', and keeps selectedChart
C21_ResetRestoresAll ==
  [][ResetFilters =>
       /\ filteredData' = realEstateData
       /\ bedroomFilter' = "all"
       /\ priceFilter' = "all"
       /\ amenityFilter' = "all"
       /\ selectedChart' = selectedChart]_vars

\* the reset has acted on a two-listing dataset while a single chart is shown
C21_Witness ==
  /\ lastOp.ctl = "reset"
  /\ selectedChart = "heatmap"
  /\ Len(realEstateData) = 2
  /\ filteredData = realEstateData

\* the chart views of the charts-container, by the key that selects them
ChartViews == {"scatter", "histogram", "donut", "heatmap", "featurePremium"}

\* (selectedChart === 'all' || selectedChart === chart)
Displayed(chart) == selectedChart = "all" \/ selectedChart = chart

\* the chart elements the charts-container renders, each with its data prop
DisplayedCharts ==
  { [chart |-> chart, data |-> filteredData] :
      chart \in { c \in ChartViews : Displayed(c) } }

\* C22: five charts are displayed for 'all' and else the selected chart
\* alone, each with filteredData as its data; a change of selectedChart
\* leaves filteredData and the three filter selections as they were
C22_ChartSelection ==
  /\ [](/\ Cardinality(DisplayedCharts) = IF selectedChart = "all" THEN 5 ELSE 1
        /\ \A c \in ChartViews :
             Displayed(c) <=> (selectedChart = "all" \/ selectedChart = c)
        /\ selectedChart # "all" =>
             DisplayedCharts = {[chart |-> selectedChart, data |-> filteredData]}
        /\ \A shown \in DisplayedCharts : shown.data = filteredData)
  /\ [][selectedChart' # selectedChart =>
          UNCHANGED <<filteredData, bedroomFilter, priceFilter,
                      amenityFilter>>]_vars

\* a chart button has acted while a bedroom filter holds a proper part of the
\* dataset
C22_Witness ==
  /\ selectedChart = "donut"
  /\ bedroomFilter = "medium"
  /\ lastOp.ctl = "bedroom"
  /\ Len(realEstateData) = 2
  /\ Len(filteredData) = 1

\* C23 as stated: when the effect has run on a non-empty ranked output, the
\* feature of the insights box is an entry of the ranked output, and the box
\* is labelled 'BEST VALUE' exactly when that feature is the top-ranked one
C23_DetailsBoxShowsRanked ==
  LET ranked == premiumData
  IN  (/\ ~document.pending
       /\ ChartMounted(selectedChart)
       /\ Len(ranked) > 0) =>
        /\ Len(document.box) = 1
        /\ \E i \in DOMAIN ranked : ranked[i].key = document.box[1].feature
        /\ document.box[1].best <=> (document.box[1].feature = ranked[1].key)

\* C24 as stated: once the effect of a render has run, the bar groups of the
\* svg are those of the ranked output of the current subset, none when the
\* ranked output is empty
C24_BarsFollowRankedOutput ==
  (~document.pending /\ ChartMounted(selectedChart)) =>
    document.bars = DrawnBars(premiumData)

\* C26 as stated: once the effect of a render has run, the body holds no more
\* 'tooltip-premium' elements than the ranked output has features
C26_TooltipsBounded ==
  ~document.pending => document.tooltips <= Len(premiumData)

\* the bedroom counts in the order the claim gives for the slices
ClaimedBedroomOrder == <<2, 1, 3, 6, 4, 5>>

\* the place of a slice label in the claimed order, 0 for any other label
ClaimedPlace(status) ==
  IF \E i \in DOMAIN ClaimedBedroomOrder :
       status = CountLabel(ClaimedBedroomOrder[i], "Bedroom", "Bedrooms")
  THEN CHOOSE i \in DOMAIN ClaimedBedroomOrder :
         status = CountLabel(ClaimedBedroomOrder[i], "Bedroom", "Bedrooms")
  ELSE 0

\* C25: in the bedrooms analysis the slices come in the order 2, 1, 3, 6, 4,
\* 5 bedrooms, every other label after them, and they are the groups of the
\* grouping with their counts, each once
C25_BedroomSlicesOrdered ==
  LET groups == processDataByType("bedrooms", filteredData)
      drawn  == chartData("bedrooms", filteredData)
  IN  /\ Len(drawn) = Len(groups)
      /\ Range(drawn) = Range(groups)
      /\ \A j, k \in DOMAIN drawn :
           j < k =>
             \/ ClaimedPlace(drawn[k].status) = 0
             \/ /\ ClaimedPlace(drawn[j].status) > 0
                /\ ClaimedPlace(drawn[j].status) < ClaimedPlace(drawn[k].status)

\* the bedroom filter has acted and the donut draws '2 Bedrooms' before
\* '1 Bedroom', which the grouping produced in the opposite order
C25_Witness ==
  /\ lastOp.ctl = "bedroom"
  /\ lastOp.value = "small"
  /\ Len(chartData("bedrooms", filteredData)) = 2
  /\ chartData("bedrooms", filteredData)[1].status = "2 Bedrooms"
  /\ processDataByType("bedrooms", filteredData)[1].status = "1 Bedroom"

=============================================================================
